---- MODULE Spec2Model ----
(***************************************************************************)
(* Model of scripts/convert_rules_html_to_md.py: the visibility filter     *)
(* (is_hidden), the cross-reference extractor (extract_cross_references),  *)
(* the rule numbering engine (process_li) and the section processor        *)
(* (process_section).                                                      *)
(*                                                                         *)
(* The functions are pure.  Each specification draws the arguments of one  *)
(* function in Init and its single action applies the function:            *)
(*   SpecHidden  is_hidden on a tag and its chain of ancestors             *)
(*   SpecXref    extract_cross_references on the annotation links of a node*)
(*   SpecLi      process_li on a list item in a numbering context          *)
(*   Spec        process_section on the main list of a section             *)
(*                                                                         *)
(* Representation.  A style attribute is the sequence of its characters.   *)
(* A text is the sequence of its words (clean_text's whitespace collapse   *)
(* is the word split).  A tag seen by is_hidden is the chain of            *)
(* [name, style, class] records from the tag up to, and excluding, the     *)
(* '[document]' root.  An emitted line is [kind, number, text, item]:       *)
(* number is the list of dotted components ('.'.join is Join), <<>> for    *)
(* None; text is the text with its cross-references; item is the position  *)
(* of the list item the line was emitted for.                              *)
(***************************************************************************)
EXTENDS Integers, Sequences, FiniteSets, TLC

VARIABLES pc, args, ret

vars == <<pc, args, ret>>

\* ------------------------------------------------------------------ bounds
\* Ancestors above the tag given to is_hidden.
MaxAncestors == 2

\* ---------------------------------------------------------------- helpers
SeqsUpTo(S, n) == UNION {[1..k -> S] : k \in 0..n}

RECURSIVE Join(_, _)
Join(parts, sep) ==
  IF parts = <<>> THEN ""
  ELSE IF Len(parts) = 1 THEN parts[1]
  ELSE parts[1] \o sep \o Join(Tail(parts), sep)

\* str.lower() on the characters and words the model uses.
Lower(c) ==
  CASE c = "D" -> "d" [] c = "I" -> "i" [] c = "S" -> "s" [] c = "P" -> "p"
    [] c = "L" -> "l" [] c = "A" -> "a" [] c = "Y" -> "y" [] c = "N" -> "n"
    [] c = "O" -> "o" [] c = "E" -> "e"
    [] c = "This" -> "this" [] c = "Play" -> "play" [] c = "On" -> "on"
    [] c = "Lists" -> "lists" [] c = "Setup" -> "setup"
    [] c = "Shuffle" -> "shuffle"
    [] OTHER -> c

LowerAll(s) == [i \in 1..Len(s) |-> Lower(s[i])]

\* `needle in hay` at position i, for sequences (of characters or words).
OccursAt(needle, hay, i) ==
  /\ i + Len(needle) - 1 <= Len(hay)
  /\ \A k \in 1..Len(needle) : hay[i + k - 1] = needle[k]

Contains(hay, needle) == \E i \in 1..(Len(hay) + 1) : OccursAt(needle, hay, i)

StartsWith(hay, needle) == OccursAt(needle, hay, 1)

\* ------------------------------------------------------------- is_hidden
Whitespace == {" ", "\t"}

\* The position after the run of whitespace that starts at i (regex \s*,
\* greedy; the characters after it are not whitespace, so no backtracking).
RECURSIVE SkipWs(_, _)
SkipWs(s, i) ==
  IF i <= Len(s) /\ s[i] \in Whitespace THEN SkipWs(s, i + 1) ELSE i

\* re.search(r'display\s*:\s*none', style, re.IGNORECASE) is not None
DisplayNoneRegex(style) ==
  LET low == LowerAll(style) IN
  \E i \in 1..Len(low) :
    /\ OccursAt(<<"d", "i", "s", "p", "l", "a", "y">>, low, i)
    /\ LET j == SkipWs(low, i + 7) IN
       /\ j <= Len(low)
       /\ low[j] = ":"
       /\ OccursAt(<<"n", "o", "n", "e">>, low, SkipWs(low, j + 1))

StyleMatches(style) ==
  /\ Contains(LowerAll(style), <<"d", "i", "s", "p", "l", "a", "y">>)
  /\ Contains(LowerAll(style), <<"n", "o", "n", "e">>)
  /\ DisplayNoneRegex(style)

\* The while loop: test current, move to the parent, stop at the root.
RECURSIVE HiddenWalk(_, _)
HiddenWalk(chain, i) ==
  IF StyleMatches(chain[i].style) THEN TRUE
  ELSE IF i = Len(chain) THEN FALSE
  ELSE HiddenWalk(chain, i + 1)

\* A plausible slip: only the tag's own style is tested, no parent walk.
is_hidden_own_style_only(chain) ==
  IF chain[1].name = "#text" THEN FALSE ELSE StyleMatches(chain[1].style)

is_hidden(chain) ==
  IF chain[1].name = "#text" THEN FALSE ELSE HiddenWalk(chain, 1)

\* ------------------------------------------------- SpecHidden: arguments
NoStyle == <<>>
DisplayNone == <<"d", "i", "s", "p", "l", "a", "y", ":", "n", "o", "n", "e">>
DisplaySpacedUpper ==
  <<"D", "I", "S", "P", "L", "A", "Y", " ", "\t", ":", " ", "N", "o", "n", "e">>
DisplayBlock == <<"d", "i", "s", "p", "l", "a", "y", ":", "b">>
NoneThenDisplay == <<"n", "o", "n", "e", ";", "d", "i", "s", "p", "l", "a", "y", ":">>
DisplayNoColon == <<"d", "i", "s", "p", "l", "a", "y", " ", "n", "o", "n", "e">>
PrefixedDisplayNone ==
  <<"x", ":", "y", ";", "d", "i", "s", "p", "l", "a", "y", ":", " ", "n", "o", "n", "e">>

HiddenStyles == {DisplayNone, DisplaySpacedUpper, PrefixedDisplayNone}
VisibleStyles == {NoStyle, DisplayBlock, NoneThenDisplay, DisplayNoColon}
Styles == HiddenStyles \cup VisibleStyles

TagRec(name, style, class) == [name |-> name, style |-> style, class |-> class]

ChainTags == {TagRec("li", s, c) : s \in Styles, c \in {{}, {"notclassic"}}}

Chains ==
  UNION {[1..k -> ChainTags] : k \in 1..(MaxAncestors + 1)}
  \cup {<<TagRec("#text", NoStyle, {})>> \o a : a \in [1..1 -> ChainTags]}

InitHidden ==
  /\ pc = "call"
  /\ args \in {[element |-> c] : c \in Chains}
  /\ ret = FALSE

IsHiddenCall ==
  /\ pc = "call"
  /\ "element" \in DOMAIN args
  /\ ret' = is_hidden(args.element)
  /\ pc' = "return"
  /\ UNCHANGED args

SpecHidden == InitHidden /\ [][IsHiddenCall]_vars

\* Some tag of the chain (the tag itself or an ancestor at any distance)
\* carries a style written as a display:none declaration.
SomeDisplayNone(chain) == \E i \in 1..Len(chain) : chain[i].style \in HiddenStyles

HiddenReturned == pc = "return" /\ "element" \in DOMAIN args /\ args.element[1].name # "#text"

\* C8 (as amended): for a tag N, is_hidden(N) is true if and only if N or one
\* of its ancestors up to the document root has a style matching
\* display:none (any whitespace around the colon, any letter case), at any
\* distance; the class notclassic plays no part in is_hidden.
C8_HiddenIffDisplayNoneOnChain ==
  HiddenReturned => (ret <=> SomeDisplayNone(args.element))

\* C8 witness: a visible tag with visible parent whose grandparent is
\* display:none is reported hidden.
C8_Witness ==
  /\ HiddenReturned
  /\ Len(args.element) = 3
  /\ args.element[1].style \in VisibleStyles
  /\ args.element[2].style \in VisibleStyles
  /\ args.element[3].style = DisplaySpacedUpper
  /\ ret = TRUE

\* C8 (as claimed): is_hidden(N) is true if and only if N or an ancestor has
\* a style matching display:none, or N itself carries the class notclassic.
C8_Original ==
  HiddenReturned =>
    (ret <=> (SomeDisplayNone(args.element) \/ "notclassic" \in args.element[1].class))

\* ------------------------------------------------------ get_text_content
\* A tag's text is held as its words, already without the text of nested
\* lists; hidden and notclassic tags yield the empty string.
get_text_content(tag, parents) ==
  IF is_hidden(<<TagRec(tag.name, tag.style, tag.class)>> \o parents) THEN <<>>
  ELSE IF "notclassic" \in tag.class THEN <<>>
  ELSE tag.text

\* ---------------------------------------------- extract_cross_references
Digits == {"0", "1", "2", "3", "4", "5", "6", "7", "8", "9"}

\* The position after the run of digits that starts at i (regex \d+, greedy).
RECURSIVE SkipDigits(_, _)
SkipDigits(s, i) ==
  IF i <= Len(s) /\ s[i] \in Digits THEN SkipDigits(s, i + 1) ELSE i

\* (?:\.\d+)* from position i: the position after the last group taken.
RECURSIVE SkipGroups(_, _)
SkipGroups(s, i) ==
  IF i <= Len(s) /\ s[i] = "." /\ SkipDigits(s, i + 1) > i + 1
  THEN SkipGroups(s, SkipDigits(s, i + 1))
  ELSE i

\* \d+\.\d+(?:\.\d+)* anchored at i: the position after the match, 0 if none.
NumeralEnd(s, i) ==
  LET a == SkipDigits(s, i) IN
  IF a = i \/ a > Len(s) THEN 0
  ELSE IF s[a] # "." THEN 0
  ELSE LET b == SkipDigits(s, a + 1) IN
       IF b = a + 1 THEN 0 ELSE SkipGroups(s, b)

\* [+-]?\d+\.\d+(?:\.\d+)* anchored at i: the position after the match, 0 if none.
RefEndAt(s, i) ==
  IF i > Len(s) THEN 0
  ELSE IF s[i] \in {"+", "-"} /\ NumeralEnd(s, i + 1) # 0 THEN NumeralEnd(s, i + 1)
  ELSE NumeralEnd(s, i)

\* re.search: the leftmost match, as group(1); <<>> when there is none.
RECURSIVE RefSearchFrom(_, _)
RefSearchFrom(s, i) ==
  IF i > Len(s) THEN <<>>
  ELSE IF RefEndAt(s, i) # 0 THEN SubSeq(s, i, RefEndAt(s, i) - 1)
  ELSE RefSearchFrom(s, i + 1)

RefSearch(s) == RefSearchFrom(s, 1)

\* find_all('a', class_=...): the class filter of the scan.
IsAnnotationLink(link) ==
  "addendum_link" \in link.class \/ "supersede_link" \in link.class

\* Lines 122-126: the reference of a matching link, sign prefixed if absent.
NormalizedRef(link, m) ==
  IF m[1] \in {"+", "-"} THEN m
  ELSE IF "addendum_link" \in link.class THEN <<"+">> \o m
  ELSE <<"-">> \o m

\* Lines 107-121: the matched text of a link the loop keeps; <<>> for a
\* link it skips (hidden, notclassic, foreign href) or whose text holds no
\* dotted numeral.
LinkMatch(link) ==
  IF is_hidden(<<TagRec("a", link.style, link.class)>> \o link.parents) THEN <<>>
  ELSE IF "notclassic" \in link.class THEN <<>>
  ELSE IF ~Contains(link.href, <<"rules#">>) THEN <<>>
  ELSE RefSearch(get_text_content(link, link.parents))

\* A plausible slip: the duplicate test is made on the matched text, before
\* the sign is prefixed.
RECURSIVE RefsLoopUnsignedSeen(_, _, _, _)
RefsLoopUnsignedSeen(links, i, refs, seen_refs) ==
  IF i > Len(links) THEN refs
  ELSE LET link == links[i]
           m == LinkMatch(link) IN
    IF ~IsAnnotationLink(link) \/ m = <<>>
      THEN RefsLoopUnsignedSeen(links, i + 1, refs, seen_refs)
    ELSE IF m \notin seen_refs
      THEN RefsLoopUnsignedSeen(links, i + 1, Append(refs, NormalizedRef(link, m)),
                                seen_refs \cup {m})
    ELSE RefsLoopUnsignedSeen(links, i + 1, refs, seen_refs)

\* The for loop of lines 105-130 from link i on, with refs and seen_refs.
RECURSIVE RefsLoop(_, _, _, _)
RefsLoop(links, i, refs, seen_refs) ==
  IF i > Len(links) THEN refs
  ELSE LET link == links[i]
           m == LinkMatch(link) IN
    IF ~IsAnnotationLink(link) \/ m = <<>> THEN RefsLoop(links, i + 1, refs, seen_refs)
    ELSE IF NormalizedRef(link, m) \notin seen_refs
      THEN RefsLoop(links, i + 1, Append(refs, NormalizedRef(link, m)),
                    seen_refs \cup {NormalizedRef(link, m)})
    ELSE RefsLoop(links, i + 1, refs, seen_refs)

\* The refs list at line 132; links are the node's descendant <a> tags in
\* document order, each with its chain of parents.
CrossRefList(links) == RefsLoop(links, 1, <<>>, {})

RefStrings(refs) == [k \in 1..Len(refs) |-> Join(refs[k], "")]

extract_cross_references(links) == Join(RefStrings(CrossRefList(links)), " ")

\* --------------------------------------------------- SpecXref: arguments
\* Links of the node scanned.
MaxLinks == 3

LinkRec(class, style, parents, href, text) ==
  [name |-> "a", class |-> class, style |-> style, parents |-> parents,
   href |-> href, text |-> text]

RulesHref == <<"rules#", "2.01.03">>
ForeignHref == <<"https://", "example.org">>
VisibleParents == <<TagRec("li", NoStyle, {})>>
HiddenParents == <<TagRec("span", NoStyle, {}), TagRec("li", DisplayNone, {})>>

\* Link texts, each with the sign and numeral written in it (sign "" when
\* the text gives none, numeral "" when the text holds no dotted numeral).
LinkTexts ==
  { [text |-> <<"+", "2", ".", "0", "1">>, sign |-> "+", numeral |-> "2.01"],
    [text |-> <<"2", ".", "0", "1">>, sign |-> "", numeral |-> "2.01"],
    [text |-> <<"-", "2", ".", "0", "1">>, sign |-> "-", numeral |-> "2.01"],
    [text |-> <<"s", "e", "e", " ", "3", ".", "0", "1", ".", "1", "1", ".">>,
     sign |-> "", numeral |-> "3.01.11"],
    [text |-> <<"+", " ", "3", ".", "0", "1", ".", "1", "1">>,
     sign |-> "", numeral |-> "3.01.11"],
    [text |-> <<"+", "2", ".">>, sign |-> "", numeral |-> ""] }

\* Annotation links the loop keeps, and links it must pass over.
KeptLinks ==
  {LinkRec({c}, NoStyle, VisibleParents, RulesHref, t.text) :
     c \in {"addendum_link", "supersede_link"}, t \in LinkTexts}

SkippedLinks ==
  { LinkRec({"addendum_link"}, DisplayNone, VisibleParents, RulesHref, <<"+", "2", ".", "0", "1">>),
    LinkRec({"supersede_link"}, NoStyle, HiddenParents, RulesHref, <<"2", ".", "0", "1">>),
    LinkRec({"addendum_link", "notclassic"}, NoStyle, VisibleParents, RulesHref,
            <<"-", "2", ".", "0", "1">>),
    LinkRec({"addendum_link"}, NoStyle, VisibleParents, ForeignHref, <<"2", ".", "0", "1">>),
    LinkRec({}, NoStyle, VisibleParents, RulesHref, <<"+", "2", ".", "0", "1">>) }

InitXref ==
  /\ pc = "call"
  /\ args \in {[links |-> l] : l \in SeqsUpTo(KeptLinks \cup SkippedLinks, MaxLinks)}
  /\ ret = ""

ExtractCrossReferencesCall ==
  /\ pc = "call"
  /\ "links" \in DOMAIN args
  /\ ret' = extract_cross_references(args.links)
  /\ pc' = "return"
  /\ UNCHANGED args

SpecXref == InitXref /\ [][ExtractCrossReferencesCall]_vars

\* The signed numeral a link stands for, read off how its text was written:
\* "" for a link that does not qualify or names no numeral.
Written(link) == CHOOSE t \in LinkTexts : t.text = link.text

SignedNumeral(link) ==
  IF link \notin KeptLinks \/ Written(link).numeral = "" THEN ""
  ELSE IF Written(link).sign # "" THEN Written(link).sign \o Written(link).numeral
  ELSE IF "addendum_link" \in link.class THEN "+" \o Written(link).numeral
  ELSE "-" \o Written(link).numeral

\* Positions of the links that are the first to stand for their numeral.
FirstOccurrences(links) ==
  {i \in 1..Len(links) :
     /\ SignedNumeral(links[i]) # ""
     /\ \A j \in 1..(i - 1) : SignedNumeral(links[j]) # SignedNumeral(links[i])}

XrefReturned == pc = "return" /\ "links" \in DOMAIN args

\* C9: the result of extract_cross_references holds no reference twice, and
\* holds exactly the signed numerals of the qualifying links, each at the
\* place of its first occurrence in document order (later duplicates are
\* dropped, nothing else moves).
C9_NoDuplicatesFirstOccurrenceOrder ==
  XrefReturned =>
    LET refs == RefStrings(CrossRefList(args.links))
        first == FirstOccurrences(args.links) IN
    /\ ret = Join(refs, " ")
    /\ \A a, b \in 1..Len(refs) : refs[a] = refs[b] => a = b
    /\ Len(refs) = Cardinality(first)
    /\ \A i \in first :
         refs[Cardinality({j \in first : j <= i})] = SignedNumeral(args.links[i])

\* C9 witness: three qualifying links, the third repeating the first's
\* numeral with the sign left to the link category; two references result.
C9_Witness ==
  /\ XrefReturned
  /\ Len(args.links) = 3
  /\ args.links[1] = LinkRec({"addendum_link"}, NoStyle, VisibleParents, RulesHref,
                             <<"+", "2", ".", "0", "1">>)
  /\ args.links[2] \in KeptLinks
  /\ SignedNumeral(args.links[2]) = "-3.01.11"
  /\ args.links[3] = LinkRec({"addendum_link"}, NoStyle, VisibleParents, RulesHref,
                             <<"2", ".", "0", "1">>)
  /\ ret = "+2.01 -3.01.11"

\* ============================================================ process_li
\* Python's None (an absent subsection, an absent rule number is <<>>).
None == "None"

\* f"{n:02d}" for n >= 0
PadTwo(n) == IF n < 10 THEN "0" \o ToString(n) ELSE ToString(n)

PadAll(path) == [k \in 1..Len(path) |-> PadTwo(path[k])]

\* The parts list of format_rule_number, before '.'.join.
format_rule_number(section, subsection, rule, subrules) ==
  <<section>> \o (IF subsection # None THEN <<subsection>> ELSE <<>>)
    \o <<PadTwo(rule)>> \o PadAll(subrules)

\* Lines 160-192: the rule number of an item as its dotted components,
\* <<>> for None.
RuleNumber(section, subsection, rule_num, subrule_path, is_intro) ==
  IF is_intro THEN
    IF subsection # None THEN
      IF subrule_path # <<>>
        THEN <<section, subsection, PadTwo(rule_num)>> \o PadAll(subrule_path) \o <<"00">>
      ELSE IF rule_num > 0 THEN <<section, subsection, PadTwo(rule_num), "00">>
      ELSE <<section, subsection, "00">>
    ELSE IF section = "0" /\ rule_num = 0 THEN <<"0", "00">>
    ELSE <<>>
  ELSE IF subsection # None THEN
    IF subrule_path # <<>>
      THEN format_rule_number(section, subsection, rule_num, subrule_path)
    ELSE <<section, subsection, PadTwo(rule_num)>>
  ELSE IF subrule_path # <<>>
    THEN format_rule_number(section, None, rule_num, subrule_path)
  ELSE <<section, PadTwo(rule_num)>>

LiTag(li) == TagRec("li", li.style, li.class)

OlTag(ol) == TagRec("ol", ol.style, {})

\* li.find('ol', recursive=False): li.ol is <<>> or <<the nested ol>>;
\* find_all('li', recursive=False) is the ol's items.
NestedItems(li) == li.ol[1].items

\* first.find('a', {'name': True}) is not None: any descendant anchor.
RECURSIVE HasAnchorName(_)
HasAnchorName(li) ==
  \/ li.anchor
  \/ /\ li.ol # <<>>
     /\ \E k \in 1..Len(NestedItems(li)) : HasAnchorName(NestedItems(li)[k])

\* find_all('a', ...) below li, in document order, each link with its
\* chain of parents (parents is the chain from li's parent up).
RECURSIVE DescLinks(_, _)
RECURSIVE DescLinksOfItems(_, _, _)
DescLinks(li, parents) ==
  [k \in 1..Len(li.links) |->
     [li.links[k] EXCEPT !.parents = <<LiTag(li)>> \o parents]]
  \o (IF li.ol = <<>> THEN <<>>
      ELSE DescLinksOfItems(NestedItems(li), 1,
                            <<OlTag(li.ol[1]), LiTag(li)>> \o parents))

DescLinksOfItems(items, k, parents) ==
  IF k > Len(items) THEN <<>>
  ELSE DescLinks(items[k], parents) \o DescLinksOfItems(items, k + 1, parents)

\* Lines 222-228 and 345-351: the editorial lead-in phrases, on the
\* lower-cased link-stripped text.
is_intro_pattern(first_text) ==
  \/ Contains(first_text, <<"this", "section">>)
  \/ Contains(first_text, <<"lists", "all">>)
  \/ /\ Contains(first_text, <<"play", "at">>)
     /\ Contains(first_text, <<"anytime">>)
     /\ (Contains(first_text, <<"options">>) \/ Contains(first_text, <<"one", "of", "these">>))
  \/ /\ Contains(first_text, <<"on", "your">>)
     /\ Contains(first_text, <<"action">>)
     /\ Contains(first_text, <<"adhere">>)
  \/ StartsWith(first_text, <<"play", "at", "anytime">>)

\* A plausible slip: the anchor test inverted (intro text needs an anchor).
skip_first_nested_anchor_inverted(nested_items, parents) ==
  /\ nested_items # <<>>
  /\ HasAnchorName(nested_items[1])
  /\ is_intro_pattern(LowerAll(get_text_content(nested_items[1], parents)))

\* Lines 216-230 (process_li) and 336-354 (process_section): whether the
\* first item of a list is intro text without an anchor name.
skip_first_nested(nested_items, parents) ==
  /\ nested_items # <<>>
  /\ ~HasAnchorName(nested_items[1])
  /\ is_intro_pattern(LowerAll(get_text_content(nested_items[1], parents)))

\* One emitted line.  item is the position of the list item the line was
\* emitted for (indices from the main list down), kept so that lines of
\* items with equal text are told apart; the code does not read it.
RuleLine(number, text, item) ==
  [kind |-> "rule", number |-> number, text |-> text, item |-> item]

\* Lines 194-207: the item's own line, if it has text.
OwnLines(li, parents, item, number) ==
  LET words == Join(get_text_content(li, parents), " ")
      cross_refs == extract_cross_references(DescLinks(li, parents))
      text == IF cross_refs # "" THEN words \o " " \o cross_refs ELSE words
  IN IF text # "" THEN <<RuleLine(number, text, item)>> ELSE <<>>

RECURSIVE process_li(_, _, _, _, _, _, _, _)
RECURSIVE NestedLoop(_, _, _, _, _, _, _, _, _, _)

\* Lines 232-255: the loop over nested_items from index idx (0-based) on.
NestedLoop(nested_items, idx, nested_idx, skip_first, parents, item, section, subsection, rule_num, subrule_path) ==
  IF idx >= Len(nested_items) THEN <<>>
  ELSE LET nested_li == nested_items[idx + 1] IN
    IF is_hidden(<<LiTag(nested_li)>> \o parents)
      THEN NestedLoop(nested_items, idx + 1, nested_idx, skip_first, parents, item,
                      section, subsection, rule_num, subrule_path)
    ELSE IF skip_first /\ idx = 0
      THEN process_li(nested_li, parents, Append(item, idx + 1),
                      section, subsection, rule_num, subrule_path, TRUE)
           \o NestedLoop(nested_items, idx + 1, nested_idx, skip_first, parents, item,
                         section, subsection, rule_num, subrule_path)
    ELSE process_li(nested_li, parents, Append(item, idx + 1),
                    section, subsection, rule_num,
                    Append(subrule_path, nested_idx + 1),
                    "intro" \in nested_li.class)
         \o NestedLoop(nested_items, idx + 1, nested_idx + 1, skip_first, parents, item,
                       section, subsection, rule_num, subrule_path)

\* process_li(li, section, subsection, rule_num, subrule_path, is_intro);
\* parents is li's chain of parents, item its position.
process_li(li, parents, item, section, subsection, rule_num, subrule_path, is_intro) ==
  IF is_hidden(<<LiTag(li)>> \o parents) THEN <<>>
  ELSE IF "notclassic" \in li.class THEN <<>>
  ELSE
    LET lines == OwnLines(li, parents, item,
                          RuleNumber(section, subsection, rule_num, subrule_path, is_intro))
        below == <<OlTag(li.ol[1]), LiTag(li)>> \o parents
    IN IF li.ol = <<>> THEN lines
       ELSE IF is_hidden(below) THEN lines
       ELSE lines \o NestedLoop(NestedItems(li), 0, 0,
                                skip_first_nested(NestedItems(li), below),
                                below, item, section, subsection, rule_num, subrule_path)

\* ======================================================= process_section
DigitValue(c) ==
  CASE c = "0" -> 0 [] c = "1" -> 1 [] c = "2" -> 2 [] c = "3" -> 3 [] c = "4" -> 4
    [] c = "5" -> 5 [] c = "6" -> 6 [] c = "7" -> 7 [] c = "8" -> 8 [] c = "9" -> 9

\* int(s) for a string of digits
RECURSIVE ParseInt(_)
ParseInt(s) ==
  IF s = <<>> THEN 0
  ELSE 10 * ParseInt(SubSeq(s, 1, Len(s) - 1)) + DigitValue(s[Len(s)])

\* Lines 280-281: start is the attribute's characters, <<>> when absent.
StartNum(start_attr) ==
  IF start_attr # <<>> /\ \A k \in 1..Len(start_attr) : start_attr[k] \in Digits
  THEN ParseInt(start_attr) ELSE 1

TitleLine(title) == [kind |-> "title", number |-> <<>>, text |-> title, item |-> <<>>]

HeadingLine(section_num, subsection_num, title, item) ==
  [kind |-> "heading", number |-> <<section_num, subsection_num>>,
   text |-> title, item |-> item]

\* Lines 311-316: re.sub on the lines of one child of the 1.00 container.
\* A line starts with "1." when its number starts with section "1"; the
\* pattern ^1\.00\.\d+ covers its first three components.
FixNumbering(rule_lines, idx) ==
  [i \in 1..Len(rule_lines) |->
     LET n == rule_lines[i].number IN
     IF Len(n) >= 3 /\ n[1] = "1" /\ n[2] = "00"
     THEN [rule_lines[i] EXCEPT
             !.number = <<"1", "00", IF idx = 0 THEN "00" ELSE PadTwo(idx)>>
                        \o SubSeq(n, 4, Len(n))]
     ELSE rule_lines[i]]

\* Lines 299-320: the loop over the items of a supress_number container.
RECURSIVE SuppressedLoop(_, _, _, _, _)
SuppressedLoop(nested_items, idx, parents, item, section_num) ==
  IF idx >= Len(nested_items) THEN <<>>
  ELSE LET nested_item == nested_items[idx + 1]
           is_intro == idx = 0 /\ "intro" \in nested_item.class IN
    IF is_hidden(<<LiTag(nested_item)>> \o parents)
      THEN SuppressedLoop(nested_items, idx + 1, parents, item, section_num)
    ELSE (IF section_num = "1"
          THEN FixNumbering(process_li(nested_item, parents, Append(item, idx + 1),
                                       section_num, "00", idx, <<>>, is_intro), idx)
          ELSE process_li(nested_item, parents, Append(item, idx + 1),
                          section_num, None, idx, <<>>, is_intro))
         \o SuppressedLoop(nested_items, idx + 1, parents, item, section_num)

\* Lines 356-382: the loop over the items of a subsection header's list.
RECURSIVE SubsectionLoop(_, _, _, _, _, _, _, _)
SubsectionLoop(nested_items, idx, nested_counter, skip_first, parents, item, section_num, subsection_num) ==
  IF idx >= Len(nested_items) THEN <<>>
  ELSE LET nested_item == nested_items[idx + 1]
           is_intro == "intro" \in nested_item.class IN
    IF is_hidden(<<LiTag(nested_item)>> \o parents)
      THEN SubsectionLoop(nested_items, idx + 1, nested_counter, skip_first, parents,
                          item, section_num, subsection_num)
    ELSE IF (skip_first /\ idx = 0) \/ is_intro
      THEN process_li(nested_item, parents, Append(item, idx + 1),
                      section_num, subsection_num, 0, <<>>, TRUE)
           \o SubsectionLoop(nested_items, idx + 1, nested_counter, skip_first, parents,
                             item, section_num, subsection_num)
    ELSE process_li(nested_item, parents, Append(item, idx + 1),
                    section_num, subsection_num, nested_counter + 1, <<>>, FALSE)
         \o SubsectionLoop(nested_items, idx + 1, nested_counter + 1, skip_first, parents,
                           item, section_num, subsection_num)

\* Lines 294-321: a supress_number item.
SuppressedItem(top, parents, item, section_num) ==
  LET below == <<OlTag(top.ol[1]), LiTag(top)>> \o parents IN
  IF top.ol # <<>> /\ ~is_hidden(below)
  THEN SuppressedLoop(NestedItems(top), 0, below, item, section_num)
  ELSE <<>>

\* Lines 324-383: a subsection_header item; top.h3 is <<>> or <<title>>.
SubsectionItem(top, parents, item, section_num, item_counter) ==
  LET below == <<OlTag(top.ol[1]), LiTag(top)>> \o parents IN
  IF top.h3 = <<>> THEN <<>>
  ELSE <<HeadingLine(section_num, PadTwo(item_counter), Join(top.h3[1], " "), item)>>
       \o (IF top.ol # <<>> /\ ~is_hidden(below)
           THEN SubsectionLoop(NestedItems(top), 0, 0,
                               skip_first_nested(NestedItems(top), below),
                               below, item, section_num, PadTwo(item_counter))
           ELSE <<>>)

\* Lines 387-396: a regular top-level item.
RegularItem(top, parents, item, section_num, item_counter, start_num) ==
  IF "intro" \in top.class /\ section_num = "0" /\ item_counter = start_num
  THEN process_li(top, parents, item, section_num, None, 0, <<>>, TRUE)
  ELSE process_li(top, parents, item, section_num, None, item_counter, <<>>,
                  "intro" \in top.class)

\* Lines 287-397: the loop over top_items from position i (1-based) on.
RECURSIVE TopLoop(_, _, _, _, _, _)
TopLoop(top_items, i, item_counter, parents, section_num, start_num) ==
  IF i > Len(top_items) THEN <<>>
  ELSE LET top == top_items[i] IN
    IF is_hidden(<<LiTag(top)>> \o parents)
      THEN TopLoop(top_items, i + 1, item_counter, parents, section_num, start_num)
    ELSE IF "supress_number" \in top.class
      THEN SuppressedItem(top, parents, <<i>>, section_num)
           \o TopLoop(top_items, i + 1, item_counter, parents, section_num, start_num)
    ELSE IF "subsection_header" \in top.class
      THEN SubsectionItem(top, parents, <<i>>, section_num, item_counter)
           \o TopLoop(top_items, i + 1, item_counter + 1, parents, section_num, start_num)
    ELSE RegularItem(top, parents, <<i>>, section_num, item_counter, start_num)
         \o TopLoop(top_items, i + 1, item_counter + 1, parents, section_num, start_num)

\* process_section(section, section_num): the lines list that '\n'.join
\* turns into the section's markdown.  section.h2 is <<>> or <<title>>,
\* section.ol is <<>> or <<the first ol below the section>>.
process_section(section, section_num) ==
  LET title == IF section.h2 = <<>> THEN <<>>
               ELSE <<TitleLine(Join(section.h2[1], " "))>>
      main_ol == section.ol[1]
      parents == <<OlTag(main_ol), TagRec("section", section.style, {})>>
  IN IF section.ol = <<>> THEN title
     ELSE IF is_hidden(parents) THEN title
     ELSE title \o TopLoop(main_ol.items, 1, StartNum(main_ol.start), parents,
                           section_num, StartNum(main_ol.start))

\* ================================================== documents drawn in Init
\* Items of a nested list (Spec), of the list below the item given to
\* process_li and of the lists below its items (SpecLi), and items of a
\* main list of leaves.
MaxKids == 4
MaxLiKids == 2
MaxDeepKids == 2
MaxTop == 2

Li(class, style, text, anchor, ol) ==
  [name |-> "li", class |-> class, style |-> style, text |-> text,
   anchor |-> anchor, links |-> <<>>, h3 |-> <<>>, ol |-> ol]

Ol(style, start, items) ==
  <<[name |-> "ol", style |-> style, start |-> start, items |-> items]>>

SetupWords == <<"Setup", "the", "game">>
RuleWords == <<"Shuffle", "the", "deck">>
LeadInWords == <<"This", "section", "lists", "all", "cards">>
PlayWords == <<"Play", "at", "anytime">>
OverviewWords == <<"Overview">>

PlainItem == Li({}, NoStyle, RuleWords, TRUE, <<>>)
LeadInItem == Li({}, NoStyle, LeadInWords, FALSE, <<>>)
PlayItem == Li({}, NoStyle, PlayWords, FALSE, <<>>)
AnchoredLeadInItem == Li({}, NoStyle, LeadInWords, TRUE, <<>>)
IntroClassItem == Li({"intro"}, NoStyle, OverviewWords, FALSE, <<>>)
HiddenItem == Li({}, DisplaySpacedUpper, RuleWords, TRUE, <<>>)
NotClassicItem == Li({"notclassic"}, NoStyle, RuleWords, TRUE, <<>>)

Kids == {PlainItem, LeadInItem, IntroClassItem, HiddenItem, NotClassicItem}

TopLeaves == {Li({}, NoStyle, SetupWords, TRUE, <<>>),
              IntroClassItem, HiddenItem, NotClassicItem}

\* A regular item, a subsection header and a supress_number container,
\* each over a nested list.
Containers ==
  {Li({}, NoStyle, SetupWords, TRUE, Ol(NoStyle, <<>>, l)) : l \in SeqsUpTo(Kids, MaxKids)}
  \cup {[Li({"subsection_header"}, NoStyle, <<>>, FALSE, Ol(NoStyle, <<>>, l))
           EXCEPT !.h3 = <<SetupWords>>] : l \in SeqsUpTo(Kids, MaxKids)}
  \cup {Li({"supress_number"}, NoStyle, <<>>, FALSE, Ol(NoStyle, <<>>, l)) :
          l \in SeqsUpTo(Kids, MaxKids)}
  \cup {Li(c, NoStyle, <<>>, FALSE, Ol(DisplayNone, <<>>, <<PlainItem>>)) :
          c \in {{}, {"subsection_header"}, {"supress_number"}}}

\* Main lists: leaves only, or a container after at most one leaf.
TopLists ==
  SeqsUpTo(TopLeaves, MaxTop)
  \cup {before \o <<c>> : before \in {<<>>} \cup {<<x>> : x \in TopLeaves},
                          c \in Containers}

Section(style, h2, ol) == [name |-> "section", style |-> style, h2 |-> h2, ol |-> ol]

\* section_num with the start attribute of the section's main list.
SectionStarts ==
  {<<"0", <<"0">>>>, <<"0", <<>>>>, <<"1", <<>>>>, <<"2", <<>>>>, <<"2", <<"1", "0">>>>}

Init ==
  /\ pc = "call"
  /\ args \in
       {[section |-> Section(NoStyle, <<SetupWords>>, Ol(NoStyle, ss[2], l)),
         section_num |-> ss[1]] : ss \in SectionStarts, l \in TopLists}
       \cup {[section |-> Section(st, <<>>, o), section_num |-> "1"] :
               st \in {NoStyle, DisplayNone},
               o \in {<<>>, Ol(NoStyle, <<>>, <<PlainItem>>),
                      Ol(DisplayNone, <<>>, <<PlainItem>>)}}
  /\ ret = <<>>

ProcessSectionCall ==
  /\ pc = "call"
  /\ "section" \in DOMAIN args
  /\ ret' = process_section(args.section, args.section_num)
  /\ pc' = "return"
  /\ UNCHANGED args

Spec == Init /\ [][ProcessSectionCall]_vars

\* ---------------------------------------------------- SpecLi: arguments
DeepKids == {PlainItem, LeadInItem, IntroClassItem}

\* An item whose only content is an annotation link, and one with both.
LinkOnlyItem ==
  [Li({}, NoStyle, <<>>, FALSE, <<>>) EXCEPT
     !.links = <<LinkRec({"addendum_link"}, NoStyle, <<>>, RulesHref, <<"2", ".", "0", "1">>)>>]

LinkedItem ==
  [PlainItem EXCEPT
     !.links = <<LinkRec({"supersede_link"}, NoStyle, <<>>, RulesHref,
                         <<"3", ".", "0", "1", ".", "1", "1">>)>>]

LiKids ==
  Kids \cup {AnchoredLeadInItem, PlayItem, LinkOnlyItem, LinkedItem}
  \cup {Li({}, NoStyle, RuleWords, TRUE, Ol(NoStyle, <<>>, l)) :
          l \in SeqsUpTo(DeepKids, MaxDeepKids) \ {<<>>}}

LiArgs ==
  {Li({}, NoStyle, SetupWords, TRUE, Ol(NoStyle, <<>>, l)) : l \in SeqsUpTo(LiKids, MaxLiKids)}
  \cup {PlainItem, HiddenItem, NotClassicItem,
        Li({}, NoStyle, SetupWords, TRUE, Ol(DisplayNone, <<>>, <<PlainItem>>))}

\* The numbering contexts process_section and process_li call process_li in.
LiContexts ==
  {[section |-> s, subsection |-> u, rule_num |-> r, subrule_path |-> p, is_intro |-> FALSE] :
     s \in {"0", "2", "3"}, u \in {None, "01"}, r \in {1, 11}, p \in {<<>>, <<5>>}}
  \cup
  {[section |-> s, subsection |-> u, rule_num |-> r, subrule_path |-> p, is_intro |-> TRUE] :
     s \in {"0", "2", "3"}, u \in {None, "01"}, r \in {0, 1, 11}, p \in {<<>>, <<5>>}}

LiParents == <<TagRec("ol", NoStyle, {}), TagRec("section", NoStyle, {})>>

InitLi ==
  /\ pc = "call"
  /\ args \in {[li |-> l, ctx |-> c] : l \in LiArgs, c \in LiContexts}
  /\ ret = <<>>

ProcessLiCall ==
  /\ pc = "call"
  /\ "li" \in DOMAIN args
  /\ ret' = process_li(args.li, LiParents, <<>>, args.ctx.section, args.ctx.subsection,
                       args.ctx.rule_num, args.ctx.subrule_path, args.ctx.is_intro)
  /\ pc' = "return"
  /\ UNCHANGED args

SpecLi == InitLi /\ [][ProcessLiCall]_vars

\* ============================================================== claims
SectionReturned == pc = "return" /\ "section" \in DOMAIN args /\ args.section.ol # <<>>

LiReturned == pc = "return" /\ "li" \in DOMAIN args

TopItems == args.section.ol[1].items

\* A line without the position it was emitted for: what the output holds.
Emitted(lines) ==
  [k \in 1..Len(lines) |->
     [kind |-> lines[k].kind, number |-> lines[k].number, text |-> lines[k].text]]

\* The lines emitted for the item at a position.
LinesOf(lines, item) == SelectSeq(lines, LAMBDA l : l.item = item)

\* The document with list items removed: "hidden" removes the items whose
\* style is display:none, "notclassic" those carrying the marker class.
Dropped(li, what) ==
  IF what = "hidden" THEN li.style \in HiddenStyles ELSE "notclassic" \in li.class

RECURSIVE PruneItems(_, _)
PruneItems(items, what) ==
  LET kept == SelectSeq(items, LAMBDA x : ~Dropped(x, what)) IN
  [k \in 1..Len(kept) |->
     IF kept[k].ol = <<>> THEN kept[k]
     ELSE [kept[k] EXCEPT !.ol[1].items = PruneItems(@, what)]]

PruneSection(section, what) ==
  IF section.ol = <<>> THEN section
  ELSE [section EXCEPT !.ol[1].items = PruneItems(@, what)]

\* An item written as an editorial lead-in: no anchor, no class, visible,
\* its text one of the lead-in phrasings.
WrittenAsLeadIn(li) ==
  /\ li.class = {}
  /\ ~li.anchor
  /\ li.ol = <<>>
  /\ li.style \in VisibleStyles
  /\ li.text \in {LeadInWords, PlayWords}

\* An ordinary item: visible, no class, text, and not first-as-lead-in.
Ordinary(li) == li.class = {} /\ li.style \in VisibleStyles /\ li.text # <<>>

\* A top-level item that is a regular rule or a subsection header with a
\* title, carrying a visible nested list.
ListOwner(top) ==
  /\ "supress_number" \notin top.class
  /\ "notclassic" \notin top.class
  /\ top.style \in VisibleStyles
  /\ top.ol # <<>>
  /\ top.ol[1].style \in VisibleStyles
  /\ ("subsection_header" \in top.class => top.h3 # <<>>)
  /\ ("subsection_header" \notin top.class => top.class = {})

\* Some list at or below items begins with a display:none item.
RECURSIVE HiddenFirst(_)
HiddenFirst(items) ==
  /\ items # <<>>
  /\ \/ items[1].style \in HiddenStyles
     \/ \E k \in 1..Len(items) : items[k].ol # <<>> /\ HiddenFirst(items[k].ol[1].items)

\* C1: a display:none list item emits no line for itself or its
\* descendants, and every other line is numbered as in the document with
\* the hidden items removed (stated for the documents whose lists do not
\* begin with a hidden item, so that removal changes no list's first item).
C1_HiddenItemsLeaveNoTrace ==
  (SectionReturned /\ ~HiddenFirst(TopItems)) =>
    Emitted(ret) = Emitted(process_section(PruneSection(args.section, "hidden"),
                                           args.section_num))

\* C2: under section "1" the lines emitted for the children of a
\* supress_number item's list are numbered 1.00.00, 1.00.01, 1.00.02, ...
\* consecutively in the order emitted.
C2_SuppressedChildrenConsecutive ==
  (SectionReturned /\ args.section_num = "1") =>
    \A i \in 1..Len(TopItems) :
      ("supress_number" \in TopItems[i].class /\ TopItems[i].style \in VisibleStyles) =>
        LET child == SelectSeq(ret, LAMBDA l : Len(l.item) = 2 /\ l.item[1] = i) IN
        \A k \in 1..Len(child) : child[k].number = <<"1", "00", PadTwo(k - 1)>>

\* The number of a top-level item: of its rule line or its heading line.
TopNumber(i) == LinesOf(ret, <<i>>)[1].number

\* C3: in the list of a subsection header, and in the nested list of a rule,
\* whose first item is a lead-in without anchor, the ordinary items that
\* follow receive the counters 1, 2, 3, ... (the lead-in takes none).
C3_SiblingsAfterLeadInCountFromOne ==
  SectionReturned =>
    \A i \in 1..Len(TopItems) :
      LET top == TopItems[i]
          kids == top.ol[1].items IN
      ( /\ ListOwner(top)
        /\ Len(kids) >= 2
        /\ WrittenAsLeadIn(kids[1])
        /\ \A k \in 2..Len(kids) : Ordinary(kids[k]) ) =>
      \A k \in 2..Len(kids) :
        /\ Len(LinesOf(ret, <<i, k>>)) = 1
        /\ LinesOf(ret, <<i, k>>)[1].number = TopNumber(i) \o <<PadTwo(k - 1)>>

\* C3 witness: a rule whose nested list is a lead-in followed by three
\* ordinary items, numbered .01, .02, .03 below the rule.
C3_Witness ==
  /\ SectionReturned
  /\ args.section_num = "2"
  /\ Len(TopItems) = 1
  /\ TopItems[1].class = {}
  /\ TopItems[1].ol # <<>>
  /\ TopItems[1].ol[1].items = <<LeadInItem, PlainItem, PlainItem, PlainItem>>
  /\ [k \in 1..Len(ret) |-> ret[k].number]
       = << <<>>, <<"2", "01">>, <<>>, <<"2", "01", "01">>, <<"2", "01", "02">>,
            <<"2", "01", "03">> >>

\* A visible item with text that is ordinary or of class intro.
OrdinaryOrIntro(li) ==
  /\ li.style \in VisibleStyles
  /\ li.class \in {{}, {"intro"}}
  /\ li.text # <<>>
  /\ ~WrittenAsLeadIn(li)

OrdinaryBefore(items, j) ==
  Cardinality({m \in 1..(j - 1) : "intro" \notin items[m].class})

\* C5: intro items take no counter slot.  In a main list (outside section
\* "0", whose first intro item is the 0.00 special case) and in the list of
\* a rule or of a subsection header, made of ordinary items and items of
\* class intro only, the ordinary items are numbered base, base + 1, ...
\* in order (base the list's start number, 1 for a nested list).
C5_IntroTakesNoCounterSlot ==
  SectionReturned =>
    /\ (args.section_num # "0" /\ \A j \in 1..Len(TopItems) : OrdinaryOrIntro(TopItems[j])) =>
         \A j \in 1..Len(TopItems) :
           "intro" \notin TopItems[j].class =>
             LinesOf(ret, <<j>>)[1].number =
               <<args.section_num,
                 PadTwo(StartNum(args.section.ol[1].start) + OrdinaryBefore(TopItems, j))>>
    /\ \A i \in 1..Len(TopItems) :
         LET kids == TopItems[i].ol[1].items IN
         (ListOwner(TopItems[i]) /\ \A j \in 1..Len(kids) : OrdinaryOrIntro(kids[j])) =>
           \A j \in 1..Len(kids) :
             "intro" \notin kids[j].class =>
               LinesOf(ret, <<i, j>>)[1].number =
                 TopNumber(i) \o <<PadTwo(1 + OrdinaryBefore(kids, j))>>

\* C6: the lead-in first item of the nested list of a top-level rule r, in
\* a section without subsections, is emitted with the number
\* <section>.<rule>.00.
C6_BareRuleIntroNumbered ==
  SectionReturned =>
    \A i \in 1..Len(TopItems) :
      LET top == TopItems[i] IN
      (ListOwner(top) /\ top.class = {} /\ top.ol[1].items # <<>>
         /\ WrittenAsLeadIn(top.ol[1].items[1])) =>
        /\ Len(LinesOf(ret, <<i, 1>>)) = 1
        /\ LinesOf(ret, <<i, 1>>)[1].number = TopNumber(i) \o <<"00">>

\* C10: a notclassic list item is pruned from output and from numbering:
\* the output is that of the document with the notclassic items removed.
C10_NotClassicFullyPruned ==
  SectionReturned =>
    Emitted(ret) = Emitted(process_section(PruneSection(args.section, "notclassic"),
                                           args.section_num))

\* ------------------------------------------------- claims on process_li
RECURSIVE ItemAt(_, _)
ItemAt(li, item) ==
  IF item = <<>> THEN li ELSE ItemAt(li.ol[1].items[item[1]], Tail(item))

\* The list an item at a position (below args.li) stands in.
SiblingsOf(item) == ItemAt(args.li, SubSeq(item, 1, Len(item) - 1)).ol[1].items

\* Whether the item at position j of a list is an intro item: by the class
\* intro, or as the list's first item written as a lead-in.
IntroItem(items, j) ==
  "intro" \in items[j].class \/ (j = 1 /\ WrittenAsLeadIn(items[1]))

\* 1-based position among the visible non-intro siblings.
PositionAmongRegular(items, j) ==
  1 + Cardinality({m \in 1..(j - 1) :
                     items[m].style \in VisibleStyles /\ ~IntroItem(items, m)})

RegularPath(item) ==
  \A d \in 1..Len(item) : ~IntroItem(SiblingsOf(SubSeq(item, 1, d)), item[d])

NestingPath(item) ==
  [d \in 1..Len(item) |-> PositionAmongRegular(SiblingsOf(SubSeq(item, 1, d)), item[d])]

\* C4: a regular item reached from (section, optional subsection, rule r)
\* through the nesting path p1..pn, pi its position among its visible
\* non-intro siblings, is numbered s[.u].rr.p1...pn, two digits each.
C4_RegularNestedNumber ==
  (LiReturned /\ ~args.ctx.is_intro) =>
    \A k \in 1..Len(ret) :
      (ret[k].item # <<>> /\ RegularPath(ret[k].item)) =>
        ret[k].number =
          <<args.ctx.section>>
          \o (IF args.ctx.subsection = None THEN <<>> ELSE <<args.ctx.subsection>>)
          \o <<PadTwo(args.ctx.rule_num)>>
          \o PadAll(args.ctx.subrule_path \o NestingPath(ret[k].item))

\* C7: under a subsection, an intro item in a nested list (by the class
\* intro or as a detected lead-in) is numbered as its parent with one more
\* component, "00": as many components as its regular siblings have.
C7_NestedIntroReplacesLastWithZero ==
  (LiReturned /\ args.ctx.subsection # None /\ ~args.ctx.is_intro) =>
    \A k \in 1..Len(ret) :
      LET item == ret[k].item IN
      (item # <<>> /\ IntroItem(SiblingsOf(item), item[Len(item)])
         /\ RegularPath(SubSeq(item, 1, Len(item) - 1))) =>
        ret[k].number = LinesOf(ret, SubSeq(item, 1, Len(item) - 1))[1].number \o <<"00">>

\* A section tree built only from visible regular items, intro items,
\* subsection headers, supress_number containers and nested lists: nothing
\* is display:none or notclassic, and an item of class intro stands only at
\* the head of its list.
RECURSIVE PlainlyBuilt(_)
PlainlyBuilt(items) ==
  \A k \in 1..Len(items) :
    /\ items[k].style \in VisibleStyles
    /\ "notclassic" \notin items[k].class
    /\ ("intro" \in items[k].class => k = 1)
    /\ (items[k].ol # <<>> =>
          /\ items[k].ol[1].style \in VisibleStyles
          /\ PlainlyBuilt(items[k].ol[1].items))

\* The positions of the numbered rule lines of an output.
NumberedRules(lines) ==
  {k \in 1..Len(lines) : lines[k].kind = "rule" /\ lines[k].number # <<>>}

\* C11: within the output of one process_section call no two emitted rule
\* lines carry the same rule number, for every section tree built from
\* regular items, intro items, subsection headers, supress_number
\* containers and nested lists; in particular the children of a
\* supress_number container in a section other than "1" never share a
\* number with the section's regular top-level items (stated for the
\* sections other than "0" and "1", which have neither the 0.00 sentinel
\* nor the 1.00 renumbering).
C11_NoDuplicateRuleNumbers ==
  (SectionReturned /\ PlainlyBuilt(TopItems) /\ args.section_num \notin {"0", "1"}) =>
    \A i, j \in NumberedRules(ret) : ret[i].number = ret[j].number => i = j
====
